---- MODULE Spec2Model ----
(***************************************************************************)
(* Session state machine of the 20-questions server, version 1.3           *)
(* (src/server.js, lines 301-950).  One room code is modelled: rooms are   *)
(* independent aggregates, and the registry `rooms` is reduced to whether  *)
(* that one code is registered.  Every socket handler and every timer      *)
(* callback is one action that runs to completion (Node's event loop).     *)
(*                                                                         *)
(* The append-only `logs` and `chat` arrays are read by no handler; only   *)
(* the log broadcast of pushLog is kept.  Fields that only travel in       *)
(* payloads and are read by no handler are left out: player names, a       *)
(* question's `by` and `text`, a guess's `by` and `text`.                  *)
(***************************************************************************)
EXTENDS Integers, Sequences, FiniteSets, TLC

\* ---------------------------------------------------------------- bounds
\* Number of socket ids that ever connect.
NumSockets == 3
\* The question budget room.maxQuestions (createRoom sets 20), scaled down.
QuestionBudget == 3
\* At most this many questions are put in one round (the code has no such
\* limit: a "Non so" answer consumes no budget).
MaxQuestionsPerRound == 1
\* The thinker may answer a pending question after the budget is spent; asked
\* is followed up to this many units past the budget.
MaxOverrun == 1
\* In the idle rounds (SpecIdle) at most this many questions are put in one
\* round.
MaxQuestionsIdle == 3
\* Connections in the crowded rooms (SpecCrowd).
CrowdSockets == 4

\* ------------------------------------------------------------- constants
\* if (player.timeouts >= 3)
ExpelThreshold == 3
\* room.guessAttempts[id] = 2
AttemptsPerPlayer == 2

Sockets == 1..(IF CrowdSockets > NumSockets THEN CrowdSockets ELSE NumSockets)
QuestionIds == 1..MaxQuestionsPerRound
\* null / undefined socket id
NoId == 0
\* null for string-valued fields (secretWord, answer)
Null == "<null>"

\* secretWord payloads of round:start and their String(x || '').trim()
RawWords == {" ", "gatto"}
Trim(w) == IF w = " " THEN "" ELSE w

\* guess texts and String.prototype.toLowerCase on the strings in use
GuessTexts == {"GATTO", "cane"}
ToLowerCase(t) == IF t = "GATTO" THEN "gatto" ELSE t

\* answer payloads of question:answer ("" is a falsy answer)
Answers == {"Si", "Non so", ""}
\* JavaScript truthiness of a string-or-null value
Truthy(v) == v # Null /\ v # ""

VARIABLES
    room,        \* the room object created by createRoom
    registered,  \* rooms.has(code)
    connected,   \* socket ids whose connection is open
    emitted      \* the round:ended broadcast of the last handler or callback, if any

vars == <<room, registered, connected, emitted>>

\* ------------------------------------------------------ the room object
NoTimer == [type |-> "none", target |-> NoId, qid |-> 0, live |-> FALSE]

\* guessAttempts: null is <<>>, an object m is <<m>>
NoAttempts == <<>>
EmptyObject == <<>>

createRoom ==
    [ status        |-> "waiting",
      players       |-> <<>>,
      thinkerSocketId |-> NoId,
      secretWord    |-> Null,
      questions     |-> <<>>,
      guesses       |-> <<>>,
      turnOrder     |-> <<>>,
      turnIdx       |-> 0,
      maxQuestions  |-> QuestionBudget,
      asked         |-> 0,
      guessAttempts |-> NoAttempts,
      turnTimer     |-> NoTimer,
      lastQuestionId |-> 0,
      guessTimers   |-> [s \in Sockets |-> "absent"] ]

\* --------------------------------------------------- Map / Array helpers
RECURSIVE IndexOf(_, _, _)
IndexOf(seq, x, i) ==
    IF i > Len(seq) THEN -1
    ELSE IF seq[i] = x THEN i - 1
    ELSE IndexOf(seq, x, i + 1)

Includes(seq, x) == \E i \in 1..Len(seq) : seq[i] = x
Filter(seq, x) == SelectSeq(seq, LAMBDA y : y # x)
Splice(seq, idx) == [i \in 1..(Len(seq) - 1) |-> IF i <= idx THEN seq[i] ELSE seq[i + 1]]
\* seq[i] with a 0-based index; out of range is undefined
At(seq, i) == IF i + 1 \in 1..Len(seq) THEN seq[i + 1] ELSE NoId

PlayerKeys(pl) == [i \in 1..Len(pl) |-> pl[i].id]
PlayersHas(pl, id) == \E i \in 1..Len(pl) : pl[i].id = id
PlayersGet(pl, id) == pl[CHOOSE i \in 1..Len(pl) : pl[i].id = id]
PlayersDelete(pl, id) == SelectSeq(pl, LAMBDA p : p.id # id)
\* Map.set: an existing key keeps its position
PlayersSet(pl, rec) ==
    IF PlayersHas(pl, rec.id)
    THEN [i \in 1..Len(pl) |-> IF pl[i].id = rec.id THEN rec ELSE pl[i]]
    ELSE Append(pl, rec)
SetTimeouts(pl, id, n) ==
    [i \in 1..Len(pl) |-> IF pl[i].id = id THEN [pl[i] EXCEPT !.timeouts = n] ELSE pl[i]]

\* --------------------------------------------------------------- context
\* A handler works on a context c: the room object, the registry entry and
\* the events emitted so far.
Ctx == [room |-> room, reg |-> registered, out |-> <<>>]
Ev(name, to, arg, msg) == [ev |-> name, to |-> to, arg |-> arg, msg |-> msg]
Emit(c, name, to, arg) == [c EXCEPT !.out = Append(@, Ev(name, to, arg, ""))]
\* round:ended with its message and winnerId
EmitEnded(c, message, winnerId) ==
    [c EXCEPT !.out = Append(@, Ev("round:ended", NoId, winnerId, message))]
pushLog(c) == Emit(c, "log:message", NoId, 0)
\* the log line of an expulsion for inactivity
pushLogExpelled(c, playerId) ==
    [c EXCEPT !.out = Append(@, Ev("log:message", NoId, playerId, "expelled"))]
\* What the state keeps of the events of the last handler: the message and
\* the winnerId of its round:ended broadcast, and the player its log line
\* reports as expelled.
NoEvents == [roundEnded |-> "", winnerId |-> NoId, expelled |-> NoId]
Summary(out) ==
    LET ended == {i \in 1..Len(out) : out[i].ev = "round:ended"}
        expel == {i \in 1..Len(out) : out[i].msg = "expelled"}
    IN [ roundEnded |-> IF ended = {} THEN "" ELSE out[CHOOSE i \in ended : TRUE].msg,
         winnerId |-> IF ended = {} THEN NoId ELSE out[CHOOSE i \in ended : TRUE].arg,
         expelled |-> IF expel = {} THEN NoId ELSE out[CHOOSE i \in expel : TRUE].arg ]

\* Once rooms.delete has run and no timer closure holds the room object, the
\* object is unreachable: it is represented by the fresh object.
Collected(c) ==
    /\ ~c.reg
    /\ ~c.room.turnTimer.live
    /\ \A s \in Sockets : c.room.guessTimers[s] # "pending"
Commit(c) ==
    /\ room' = IF Collected(c) THEN createRoom ELSE c.room
    /\ registered' = c.reg
    /\ emitted' = Summary(c.out)

\* ---------------------------------------------------------------- timers
\* the turn timer left running
clearTurnTimer_keep(c) == c

clearTurnTimer(c) == [c EXCEPT !.room.turnTimer = NoTimer]

startAskTimer(c) ==
    LET c1 == clearTurnTimer(c) IN
    IF c1.room.status # "playing" THEN c1
    ELSE IF Len(c1.room.turnOrder) = 0 THEN c1
    ELSE
      LET c2 == IF c1.room.turnIdx >= Len(c1.room.turnOrder)
                THEN [c1 EXCEPT !.room.turnIdx = 0] ELSE c1
          currentId == At(c2.room.turnOrder, c2.room.turnIdx)
          c3 == Emit(c2, "timer:start:ask", currentId, 0)
      IN [c3 EXCEPT !.room.turnTimer =
              [type |-> "ask", target |-> currentId, qid |-> 0, live |-> TRUE]]

startAnswerTimer(c, questionId) ==
    LET c1 == clearTurnTimer(c) IN
    IF c1.room.status # "playing" THEN c1
    ELSE IF c1.room.thinkerSocketId = NoId THEN c1
    ELSE
      LET thinkerId == c1.room.thinkerSocketId
          c2 == Emit(c1, "timer:start:answer", thinkerId, 0)
      IN [c2 EXCEPT !.room.turnTimer =
              [type |-> "answer", target |-> thinkerId, qid |-> questionId, live |-> TRUE]]

\* the guess timer of the player left running
clearGuessTimerFor_keep(c, playerId) == c

clearGuessTimerFor(c, playerId) == [c EXCEPT !.room.guessTimers[playerId] = "absent"]

clearGuessTimers(c) == [c EXCEPT !.room.guessTimers = [s \in Sockets |-> "absent"]]

\* startGuessTimer that announces the countdown without setting the timer
startGuessTimer_unset(c, playerId) ==
    Emit(clearGuessTimerFor(c, playerId), "timer:start:guess", playerId, 0)

startGuessTimer(c, playerId) ==
    LET c1 == clearGuessTimerFor(c, playerId)
        c2 == Emit(c1, "timer:start:guess", playerId, 0)
    IN [c2 EXCEPT !.room.guessTimers[playerId] = "pending"]

\* ------------------------------------------------- guessAttempts object
Undefined == -1
GAGet(m, id) == IF id \in DOMAIN m THEN m[id] ELSE Undefined
GASet(m, id, n) == [k \in (DOMAIN m) \cup {id} |-> IF k = id THEN n ELSE m[k]]
\* Object.values(room.guessAttempts).every(x => x <= 0)
AllOut(m) == \A k \in DOMAIN m : m[k] <= 0

\* ---------------------------------------------------- round/guess helpers
\* the budget test taken one unit too late
BudgetSpent_late(r) == r.asked > r.maxQuestions

\* room.asked >= room.maxQuestions
BudgetSpent(r) == r.asked >= r.maxQuestions

\* the exhausted round ended without a winnerId
ExhaustedWinner_none(r) == NoId

\* the winnerId passed to endRoundAndRotate when every attempt is used up
ExhaustedWinner(r) == r.thinkerSocketId

\* the expulsion test taken one timeout too late
ShouldExpel_late(n) == n > ExpelThreshold

\* if (player.timeouts >= 3), if (thinker.timeouts >= 3)
ShouldExpel(n) == n >= ExpelThreshold

\* the body of the for-loop of startGuessPhase, from player i on
RECURSIVE GrantAttempts(_, _)
GrantAttempts(c, i) ==
    IF i > Len(c.room.players) THEN c
    ELSE LET id == c.room.players[i].id IN
         IF id # c.room.thinkerSocketId
         THEN GrantAttempts(
                startGuessTimer(
                  [c EXCEPT !.room.guessAttempts =
                      <<GASet(@[1], id, AttemptsPerPlayer)>>], id),
                i + 1)
         ELSE GrantAttempts(c, i + 1)

startGuessPhase(c) ==
    IF ~c.reg THEN c
    ELSE LET c1 == [c EXCEPT !.room.status = "guessing",
                             !.room.guessAttempts = <<EmptyObject>>]
             c2 == clearGuessTimers(clearTurnTimer(c1))
             c3 == GrantAttempts(c2, 1)
         IN Emit(pushLog(c3), "room:state", NoId, 0)

\* rotateThinker without the rebuild of turnOrder
rotateThinker_keepOrder(c) ==
    LET r == c.room
        keys == PlayerKeys(r.players)
        others == SelectSeq(keys, LAMBDA id : id # r.thinkerSocketId)
        nextThinkerId ==
            IF Len(r.turnOrder) > 0
            THEN At(r.turnOrder, IF r.turnIdx >= Len(r.turnOrder) THEN 0 ELSE r.turnIdx)
            ELSE IF Len(others) > 0 THEN others[1] ELSE r.thinkerSocketId
    IN [c EXCEPT
          !.room.players = [i \in 1..Len(r.players) |->
              [r.players[i] EXCEPT !.role =
                  IF r.players[i].id = nextThinkerId THEN "thinker" ELSE "guesser"]],
          !.room.thinkerSocketId = nextThinkerId,
          !.room.turnIdx = 0]

\* rotateThinker reading turnOrder[0] whatever turnIdx is
rotateThinker_first(c) ==
    LET r == c.room
        keys == PlayerKeys(r.players)
        others == SelectSeq(keys, LAMBDA id : id # r.thinkerSocketId)
        nextThinkerId ==
            IF Len(r.turnOrder) > 0 THEN At(r.turnOrder, 0)
            ELSE IF Len(others) > 0 THEN others[1] ELSE r.thinkerSocketId
    IN [c EXCEPT
          !.room.players = [i \in 1..Len(r.players) |->
              [r.players[i] EXCEPT !.role =
                  IF r.players[i].id = nextThinkerId THEN "thinker" ELSE "guesser"]],
          !.room.thinkerSocketId = nextThinkerId,
          !.room.turnOrder = Filter(keys, nextThinkerId),
          !.room.turnIdx = 0]

rotateThinker(c) ==
    LET r == c.room
        keys == PlayerKeys(r.players)
        others == SelectSeq(keys, LAMBDA id : id # r.thinkerSocketId)
        nextThinkerId ==
            IF Len(r.turnOrder) > 0
            THEN At(r.turnOrder, IF r.turnIdx >= Len(r.turnOrder) THEN 0 ELSE r.turnIdx)
            ELSE IF Len(others) > 0 THEN others[1] ELSE r.thinkerSocketId
    IN [c EXCEPT
          !.room.players = [i \in 1..Len(r.players) |->
              [r.players[i] EXCEPT !.role =
                  IF r.players[i].id = nextThinkerId THEN "thinker" ELSE "guesser"]],
          !.room.thinkerSocketId = nextThinkerId,
          !.room.turnOrder = Filter(keys, nextThinkerId),
          !.room.turnIdx = 0]

\* endRoundAndRotate without the reset of guessAttempts
endRoundAndRotate_keepAttempts(c, message, winnerId) ==
    IF ~c.reg THEN c
    ELSE LET c1 == clearGuessTimers(clearTurnTimer(c))
             c2 == EmitEnded(c1, message, winnerId)
             c3 == rotateThinker(c2)
             c4 == [c3 EXCEPT !.room.status = "waiting",
                              !.room.secretWord = Null,
                              !.room.questions = <<>>,
                              !.room.guesses = <<>>,
                              !.room.asked = 0,
                              !.room.lastQuestionId = 0]
             c5 == Emit(pushLog(c4), "room:state", NoId, 0)
         IN Emit(c5, "rooms:update", NoId, 0)

endRoundAndRotate(c, message, winnerId) ==
    IF ~c.reg THEN c
    ELSE LET c1 == clearGuessTimers(clearTurnTimer(c))
             c2 == EmitEnded(c1, message, winnerId)
             c3 == rotateThinker(c2)
             c4 == [c3 EXCEPT !.room.status = "waiting",
                              !.room.secretWord = Null,
                              !.room.questions = <<>>,
                              !.room.guesses = <<>>,
                              !.room.asked = 0,
                              !.room.guessAttempts = NoAttempts,
                              !.room.lastQuestionId = 0]
             c5 == Emit(pushLog(c4), "room:state", NoId, 0)
         IN Emit(c5, "rooms:update", NoId, 0)

\* turn:now for the player at turnIdx, then startAskTimer
AnnounceAndAsk(c) ==
    startAskTimer(Emit(c, "turn:now", NoId, At(c.room.turnOrder, c.room.turnIdx)))

\* the turn announced and timed without moving the index
AdvanceTurn_stay(c) == AnnounceAndAsk(c)

\* turnIdx = (turnIdx + 1) % turnOrder.length, turn:now, startAskTimer
AdvanceTurn(c) ==
    AnnounceAndAsk([c EXCEPT !.room.turnIdx = (@ + 1) % Len(c.room.turnOrder)])

Max(a, b) == IF a >= b THEN a ELSE b

handlePlayerExitDuringRound(c, socketId) ==
    LET c1 == clearGuessTimerFor(c, socketId)
        idx == IndexOf(c1.room.turnOrder, socketId, 1)
    IN IF idx = -1 THEN c1
       ELSE LET c2 == [c1 EXCEPT !.room.turnOrder = Splice(@, idx)] IN
            IF c2.room.status # "playing" THEN c2
            ELSE IF Len(c2.room.turnOrder) = 0 THEN clearTurnTimer(c2)
            ELSE LET c3 == IF idx < c2.room.turnIdx
                           THEN [c2 EXCEPT !.room.turnIdx = Max(0, @ - 1)]
                           ELSE c2
                 IN IF idx = c3.room.turnIdx
                    THEN LET c4 == IF c3.room.turnIdx >= Len(c3.room.turnOrder)
                                   THEN [c3 EXCEPT !.room.turnIdx = 0] ELSE c3
                         IN AnnounceAndAsk(c4)
                    ELSE c3

\* ------------------------------------------------------ timeout callbacks
\* handleGuessTimeout without the test for a player who is out of attempts
handleGuessTimeout_unguarded(c, playerId) ==
    IF c.room.status # "guessing" THEN c
    ELSE IF c.room.guessAttempts = NoAttempts THEN c
    ELSE IF GAGet(c.room.guessAttempts[1], playerId) = Undefined THEN c
    ELSE LET c1 == [c EXCEPT !.room.guessAttempts =
                        <<GASet(@[1], playerId, @[1][playerId] - 1)>>]
             c2 == Emit(pushLog(c1), "guess:timeout", NoId, playerId)
             c3 == clearGuessTimerFor(c2, playerId)
             c4 == IF c3.room.guessAttempts[1][playerId] > 0
                   THEN startGuessTimer(c3, playerId) ELSE c3
         IN IF AllOut(c4.room.guessAttempts[1])
            THEN endRoundAndRotate(c4, "exhausted", ExhaustedWinner(c4.room))
            ELSE c4

handleGuessTimeout(c, playerId) ==
    IF c.room.status # "guessing" THEN c
    ELSE IF c.room.guessAttempts = NoAttempts THEN c
    ELSE IF GAGet(c.room.guessAttempts[1], playerId) = Undefined THEN c
    ELSE IF GAGet(c.room.guessAttempts[1], playerId) <= 0
         THEN clearGuessTimerFor(c, playerId)
    ELSE LET c1 == [c EXCEPT !.room.guessAttempts =
                        <<GASet(@[1], playerId, @[1][playerId] - 1)>>]
             c2 == Emit(pushLog(c1), "guess:timeout", NoId, playerId)
             c3 == clearGuessTimerFor(c2, playerId)
             c4 == IF c3.room.guessAttempts[1][playerId] > 0
                   THEN startGuessTimer(c3, playerId) ELSE c3
         IN IF AllOut(c4.room.guessAttempts[1])
            THEN endRoundAndRotate(c4, "exhausted", ExhaustedWinner(c4.room))
            ELSE c4

\* the expulsion branch with the turn moved on past the successor
ExpelAsker_skip(c, playerId) ==
    LET c2 == pushLogExpelled(c, playerId)
        c3 == [c2 EXCEPT !.room.players = PlayersDelete(@, playerId),
                         !.room.turnOrder = Filter(@, playerId)]
        c5 == IF Len(c3.room.turnOrder) = 0 THEN clearTurnTimer(c3)
              ELSE AdvanceTurn(c3)
    IN Emit(Emit(c5, "room:state", NoId, 0), "rooms:update", NoId, 0)

\* the expulsion branch of handleAskTimeout
ExpelAsker(c, playerId) ==
    LET c2 == pushLogExpelled(c, playerId)
        removedIdx == IndexOf(c2.room.turnOrder, playerId, 1)
        c3 == [c2 EXCEPT !.room.players = PlayersDelete(@, playerId),
                         !.room.turnOrder = Filter(@, playerId)]
        c4 == IF removedIdx # -1 /\ removedIdx < c3.room.turnIdx
              THEN [c3 EXCEPT !.room.turnIdx = Max(0, @ - 1)] ELSE c3
        c5 == IF Len(c4.room.turnOrder) = 0 THEN clearTurnTimer(c4)
              ELSE AnnounceAndAsk(
                     IF c4.room.turnIdx >= Len(c4.room.turnOrder)
                     THEN [c4 EXCEPT !.room.turnIdx = 0] ELSE c4)
    IN Emit(Emit(c5, "room:state", NoId, 0), "rooms:update", NoId, 0)

handleAskTimeout(c, playerId) ==
    IF c.room.status # "playing" THEN c
    ELSE IF At(c.room.turnOrder, c.room.turnIdx) # playerId THEN c
    ELSE IF ~PlayersHas(c.room.players, playerId)
    THEN LET c1 == [c EXCEPT !.room.turnOrder = Filter(@, playerId)]
             c2 == IF c1.room.turnIdx >= Len(c1.room.turnOrder)
                   THEN [c1 EXCEPT !.room.turnIdx = 0] ELSE c1
         IN IF Len(c2.room.turnOrder) > 0 THEN AnnounceAndAsk(c2)
            ELSE clearTurnTimer(c2)
    ELSE
      LET n == PlayersGet(c.room.players, playerId).timeouts + 1
          c1 == [c EXCEPT !.room.players = SetTimeouts(@, playerId, n)]
      IN IF ShouldExpel(n) THEN ExpelAsker(c1, playerId)
         ELSE LET c2 == [c1 EXCEPT !.room.asked = @ + 1]
                  c3 == Emit(pushLog(c2), "counter:update", NoId, c2.room.asked)
              IN IF BudgetSpent(c3.room)
                 THEN startGuessPhase(clearTurnTimer(c3))
                 ELSE IF Len(c3.room.turnOrder) > 0 THEN AdvanceTurn(c3)
                 ELSE clearTurnTimer(c3)

\* room.questions.find(x => x.id === id): index of the first match, or 0
FindQuestion(qs, id) ==
    IF \E i \in 1..Len(qs) : qs[i].id = id
    THEN CHOOSE i \in 1..Len(qs) :
            qs[i].id = id /\ \A j \in 1..(i - 1) : qs[j].id # id
    ELSE 0

\* the Thinker's expulsion ending the round like any other round
ExpelThinker_rotate(c) == endRoundAndRotate(c, "thinkerExpelled", NoId)

\* expel thinker -> end round: the expulsion branch of handleAnswerTimeout
ExpelThinker(c) ==
    LET c3 == clearGuessTimers(clearTurnTimer(c))
        c4 == EmitEnded(c3, "thinkerExpelled", NoId)
    IN Emit([c4 EXCEPT !.reg = FALSE], "rooms:update", NoId, 0)

handleAnswerTimeout(c, thinkerId, questionId) ==
    IF c.room.status # "playing" THEN c
    ELSE
      LET qi == FindQuestion(c.room.questions, questionId)
          c1 == IF qi # 0 /\ ~Truthy(c.room.questions[qi].answer)
                THEN pushLog(Emit([c EXCEPT !.room.questions[qi].answer = "Non so"],
                                  "question:update", NoId, questionId))
                ELSE c
          has == PlayersHas(c1.room.players, thinkerId)
          n == IF has THEN PlayersGet(c1.room.players, thinkerId).timeouts + 1 ELSE 0
          c2 == IF has THEN [c1 EXCEPT !.room.players = SetTimeouts(@, thinkerId, n)]
                ELSE c1
      IN IF has /\ ShouldExpel(n)
         THEN ExpelThinker(c2)
         ELSE IF Len(c2.room.turnOrder) > 0 THEN AdvanceTurn(c2)
         ELSE clearTurnTimer(c2)

\* -------------------------------------------------------- socket handlers
\* Each handler is a function of the context it starts in.

\* socket.on('room:create')
roomCreate(c, s) ==
    IF c.reg THEN Emit(c, "system:error", s, 0)
    ELSE LET c1 == [c EXCEPT !.room = createRoom, !.reg = TRUE]
             c2 == [c1 EXCEPT !.room.players =
                       PlayersSet(@, [id |-> s, role |-> "thinker", timeouts |-> 0]),
                     !.room.thinkerSocketId = s]
             c3 == Emit(Emit(pushLog(c2), "log:history", s, 0), "chat:history", s, 0)
         IN Emit(Emit(c3, "room:state", NoId, 0), "rooms:update", NoId, 0)

\* socket.on('room:join')
roomJoin(c, s) ==
    IF ~c.reg THEN Emit(c, "system:error", s, 0)
    ELSE
      LET c1 == [c EXCEPT !.room.players =
                    PlayersSet(@, [id |-> s, role |-> "guesser", timeouts |-> 0])]
          c2 == Emit(Emit(c1, "log:history", s, 0), "chat:history", s, 0)
          c3 == Emit(Emit(pushLog(c2), "room:state", NoId, 0), "rooms:update", NoId, 0)
          c4 == IF /\ c3.room.status = "playing"
                   /\ s # c3.room.thinkerSocketId
                   /\ ~Includes(c3.room.turnOrder, s)
                THEN Emit(pushLog([c3 EXCEPT !.room.turnOrder = Append(@, s)]),
                          "room:state", NoId, 0)
                ELSE c3
      IN IF c4.room.status = "guessing" /\ s # c4.room.thinkerSocketId
         THEN LET d1 == IF c4.room.guessAttempts = NoAttempts
                        THEN [c4 EXCEPT !.room.guessAttempts = <<EmptyObject>>]
                        ELSE c4
                  d2 == IF GAGet(d1.room.guessAttempts[1], s) = Undefined
                        THEN [d1 EXCEPT !.room.guessAttempts =
                                <<GASet(@[1], s, AttemptsPerPlayer)>>]
                        ELSE d1
              IN Emit(pushLog(startGuessTimer(d2, s)), "room:state", NoId, 0)
         ELSE c4

\* the Thinker gone with the room left in the registry
ThinkerGone_keep(c) ==
    LET c1 == clearGuessTimers(clearTurnTimer(c))
    IN EmitEnded(c1, "thinkerLeft", NoId)

\* the branch of room:leave and of disconnect taken when the Thinker goes
ThinkerGone(c) ==
    LET c1 == clearGuessTimers(clearTurnTimer(c))
        c2 == EmitEnded(c1, "thinkerLeft", NoId)
    IN [c2 EXCEPT !.reg = FALSE]

\* socket.on('room:leave')
roomLeave(c, s) ==
    IF ~c.reg THEN c
    ELSE
      LET had == PlayersHas(c.room.players, s)
          c1 == [c EXCEPT !.room.players = PlayersDelete(@, s)]
          c2 == IF had THEN pushLog(c1) ELSE c1
      IN IF s = c2.room.thinkerSocketId
         THEN Emit(ThinkerGone(c2), "rooms:update", NoId, 0)
         ELSE LET c3 == handlePlayerExitDuringRound(c2, s)
                  c4 == Emit(Emit(c3, "room:state", NoId, 0), "rooms:update", NoId, 0)
                  c5 == clearGuessTimerFor(c4, s)
              IN IF Len(c5.room.players) = 0 THEN [c5 EXCEPT !.reg = FALSE] ELSE c5

\* round:start without the reset of the timeout counters
roundStart_keepCounters(c, s, secretWord) ==
    IF ~c.reg \/ s # c.room.thinkerSocketId THEN c
    ELSE
      LET c1 == [c EXCEPT !.room.secretWord = Trim(secretWord)] IN
      IF ~Truthy(c1.room.secretWord) THEN Emit(c1, "system:error", s, 0)
      ELSE
        LET c2 == [c1 EXCEPT
                     !.room.status = "playing",
                     !.room.questions = <<>>,
                     !.room.guesses = <<>>,
                     !.room.asked = 0,
                     !.room.guessAttempts = NoAttempts,
                     !.room.turnOrder =
                         Filter(PlayerKeys(c1.room.players), c1.room.thinkerSocketId),
                     !.room.turnIdx = 0,
                     !.room.lastQuestionId = 0]
            c3 == Emit(Emit(c2, "round:started", NoId, 0),
                       "round:secret", c2.room.thinkerSocketId, 0)
            c4 == IF Len(c3.room.turnOrder) > 0 THEN AnnounceAndAsk(c3) ELSE c3
        IN Emit(Emit(pushLog(c4), "rooms:update", NoId, 0), "room:state", NoId, 0)

\* socket.on('round:start')
roundStart(c, s, secretWord) ==
    IF ~c.reg \/ s # c.room.thinkerSocketId THEN c
    ELSE
      LET c1 == [c EXCEPT !.room.secretWord = Trim(secretWord)] IN
      IF ~Truthy(c1.room.secretWord) THEN Emit(c1, "system:error", s, 0)
      ELSE
        LET c2 == [c1 EXCEPT
                     !.room.status = "playing",
                     !.room.questions = <<>>,
                     !.room.guesses = <<>>,
                     !.room.asked = 0,
                     !.room.guessAttempts = NoAttempts,
                     !.room.turnOrder =
                         Filter(PlayerKeys(c1.room.players), c1.room.thinkerSocketId),
                     !.room.turnIdx = 0,
                     !.room.lastQuestionId = 0,
                     !.room.players =
                         [i \in 1..Len(c1.room.players) |->
                             [c1.room.players[i] EXCEPT !.timeouts = 0]]]
            c3 == Emit(Emit(c2, "round:started", NoId, 0),
                       "round:secret", c2.room.thinkerSocketId, 0)
            c4 == IF Len(c3.room.turnOrder) > 0 THEN AnnounceAndAsk(c3) ELSE c3
        IN Emit(Emit(pushLog(c4), "rooms:update", NoId, 0), "room:state", NoId, 0)

\* the counter left as it was
ResetTimeouts_keep(c, s) == c

\* if (asker) asker.timeouts = 0, and its like in the other handlers
ResetTimeouts(c, s) ==
    IF PlayersHas(c.room.players, s)
    THEN [c EXCEPT !.room.players = SetTimeouts(@, s, 0)]
    ELSE c

\* question:ask passes its three checks
AskAccepted(c, s) ==
    /\ c.reg
    /\ c.room.status = "playing"
    /\ At(c.room.turnOrder, c.room.turnIdx) = s
    /\ ~BudgetSpent(c.room)

\* socket.on('question:ask')
questionAsk(c, s) ==
    IF ~c.reg \/ c.room.status # "playing" THEN c
    ELSE IF At(c.room.turnOrder, c.room.turnIdx) # s
    THEN Emit(c, "system:error", s, 0)
    ELSE IF BudgetSpent(c.room)
    THEN Emit(c, "system:error", s, 0)
    ELSE
      LET c2 == clearTurnTimer(ResetTimeouts(c, s))
          qid == Len(c2.room.questions) + 1
          c3 == [c2 EXCEPT
                   !.room.questions = Append(@, [id |-> qid, answer |-> Null]),
                   !.room.lastQuestionId = qid]
          c4 == Emit(c3, "question:new", NoId, qid)
      IN startAnswerTimer(c4, qid)

\* question:answer passes its checks
AnswerAccepted(c, s, id) ==
    /\ c.reg
    /\ s = c.room.thinkerSocketId
    /\ FindQuestion(c.room.questions, id) # 0
    /\ ~Truthy(c.room.questions[FindQuestion(c.room.questions, id)].answer)

\* socket.on('question:answer')
questionAnswer(c, s, id, answer) ==
    LET qi == FindQuestion(c.room.questions, id) IN
    IF ~c.reg \/ s # c.room.thinkerSocketId THEN c
    ELSE IF qi = 0 \/ Truthy(c.room.questions[qi].answer) THEN c
    ELSE
      LET c2 == clearTurnTimer(ResetTimeouts(c, s))
          c3 == Emit([c2 EXCEPT !.room.questions[qi].answer = answer],
                     "question:update", NoId, id)
          c4 == IF answer # "Non so"
                THEN Emit([c3 EXCEPT !.room.asked = @ + 1],
                          "counter:update", NoId, c3.room.asked + 1)
                ELSE c3
          c5 == IF Len(c4.room.turnOrder) > 0 THEN AdvanceTurn(c4) ELSE c4
      IN IF BudgetSpent(c5.room) /\ c5.room.status = "playing"
         THEN startGuessPhase(c5) ELSE c5

\* room.secretWord && guess.toLowerCase() === room.secretWord.toLowerCase()
IsCorrect(secretWord, guess) ==
    Truthy(secretWord) /\ ToLowerCase(guess) = ToLowerCase(secretWord)

\* socket.on('guess:submit')
guessSubmit(c, s, text) ==
    IF ~c.reg \/ c.room.status \notin {"playing", "guessing"} THEN c
    ELSE
      LET correct == IsCorrect(c.room.secretWord, text)
          c1 == ResetTimeouts(c, s)
      IN
      IF c1.room.status = "guessing" /\ c1.room.guessAttempts # NoAttempts
      THEN
        IF s = c1.room.thinkerSocketId THEN c1
        ELSE
          LET c2 == IF GAGet(c1.room.guessAttempts[1], s) = Undefined
                    THEN [c1 EXCEPT !.room.guessAttempts =
                            <<GASet(@[1], s, AttemptsPerPlayer)>>]
                    ELSE c1
          IN IF c2.room.guessAttempts[1][s] <= 0 THEN c2
             ELSE
               LET c3 == clearGuessTimerFor(c2, s)
                   c4 == [c3 EXCEPT !.room.guessAttempts =
                            <<GASet(@[1], s, @[1][s] - 1)>>]
                   c5 == Emit(pushLog(c4), "guess:new", NoId, s)
                   c6 == IF c5.room.guessAttempts[1][s] > 0
                         THEN startGuessTimer(c5, s) ELSE c5
               IN IF correct THEN endRoundAndRotate(c5, "guessed", s)
                  ELSE IF AllOut(c6.room.guessAttempts[1])
                  THEN endRoundAndRotate(c6, "exhausted", ExhaustedWinner(c6.room))
                  ELSE c6
      ELSE
        LET c2 == [c1 EXCEPT !.room.guesses = Append(@, [correct |-> correct])]
            c3 == Emit(c2, "guess:new", NoId, s)
        IN IF correct THEN endRoundAndRotate(c3, "guessed", s)
           ELSE
             LET c4 == Emit([c3 EXCEPT !.room.asked = @ + 1],
                            "counter:update", NoId, c3.room.asked + 1)
             IN IF BudgetSpent(c4.room) THEN startGuessPhase(c4)
                ELSE IF Len(c4.room.turnOrder) > 0 THEN AdvanceTurn(c4)
                ELSE c4

\* socket.on('disconnect')
disconnect(c, s) ==
    IF ~c.reg \/ ~PlayersHas(c.room.players, s)
    THEN Emit(c, "rooms:update", NoId, 0)
    ELSE
      LET c1 == pushLog([c EXCEPT !.room.players = PlayersDelete(@, s)])
          c2 == clearGuessTimerFor(c1, s)
      IN IF s = c2.room.thinkerSocketId
         THEN Emit(ThinkerGone(c2), "rooms:update", NoId, 0)
         ELSE
           LET c3 == [c2 EXCEPT !.room.turnOrder = Filter(@, s)]
               c4 == IF c3.room.turnIdx >= Len(c3.room.turnOrder)
                     THEN [c3 EXCEPT !.room.turnIdx = 0] ELSE c3
               c5 == IF c4.room.status = "playing"
                     THEN IF Len(c4.room.turnOrder) > 0
                          THEN AnnounceAndAsk(Emit(c4, "room:state", NoId, 0))
                          ELSE Emit(clearTurnTimer(c4), "room:state", NoId, 0)
                     ELSE Emit(c4, "room:state", NoId, 0)
           IN Emit(c5, "rooms:update", NoId, 0)

\* the callbacks as the timer runs them: the handle has fired
askTimerFires(c) ==
    handleAskTimeout([c EXCEPT !.room.turnTimer.live = FALSE], c.room.turnTimer.target)

answerTimerFires(c) ==
    handleAnswerTimeout([c EXCEPT !.room.turnTimer.live = FALSE],
                        c.room.turnTimer.target, c.room.turnTimer.qid)

guessTimerFires(c, p) ==
    handleGuessTimeout([c EXCEPT !.room.guessTimers[p] = "fired"], p)

\* ------------------------------------------------------------------ Init
Init ==
    /\ room = createRoom
    /\ registered = FALSE
    /\ connected = 1..NumSockets
    /\ emitted = NoEvents

\* ---------------------------------------------------------------- actions
\* Socket ids are arbitrary: the connected sockets that the room does not
\* refer to are interchangeable, and the one with the least id acts for them.
Referenced(s) ==
    \/ PlayersHas(room.players, s)
    \/ room.thinkerSocketId = s
    \/ Includes(room.turnOrder, s)
    \/ room.guessAttempts # NoAttempts /\ s \in DOMAIN room.guessAttempts[1]
    \/ room.guessTimers[s] # "absent"
    \/ room.turnTimer.target = s
    \/ emitted.winnerId = s
    \/ emitted.expelled = s

Acting(s) ==
    IF s \in connected
    THEN IF Referenced(s) THEN TRUE ELSE \A t \in connected : t < s => Referenced(t)
    ELSE FALSE

\* Clients act in the room they are in: leave, start, ask, answer and guess
\* come from sockets in room.players, and a socket in the room does not join
\* it again.
Member(s) == PlayersHas(room.players, s)

RoomCreate(s) ==
    /\ Acting(s)
    /\ Commit(roomCreate(Ctx, s))
    /\ UNCHANGED connected

RoomJoin(s) ==
    /\ Acting(s)
    /\ ~Member(s)
    /\ Commit(roomJoin(Ctx, s))
    /\ UNCHANGED connected

RoomLeave(s) ==
    /\ Acting(s)
    /\ Member(s)
    /\ Commit(roomLeave(Ctx, s))
    /\ UNCHANGED connected

RoundStart(s, secretWord) ==
    /\ Acting(s)
    /\ Member(s)
    /\ Commit(roundStart(Ctx, s, secretWord))
    /\ UNCHANGED connected

QuestionAsk(s) ==
    /\ Acting(s)
    /\ Member(s)
    /\ AskAccepted(Ctx, s) => Len(room.questions) < MaxQuestionsPerRound
    /\ Commit(questionAsk(Ctx, s))
    /\ UNCHANGED connected

QuestionAnswer(s, id, answer) ==
    /\ Acting(s)
    /\ Member(s)
    /\ AnswerAccepted(Ctx, s, id) => room.asked < room.maxQuestions + MaxOverrun
    /\ Commit(questionAnswer(Ctx, s, id, answer))
    /\ UNCHANGED connected

GuessSubmit(s, text) ==
    /\ Acting(s)
    /\ Member(s)
    /\ Commit(guessSubmit(Ctx, s, text))
    /\ UNCHANGED connected

Disconnect(s) ==
    /\ Acting(s)
    /\ connected' = connected \ {s}
    /\ Commit(disconnect(Ctx, s))

AskTimerFires ==
    /\ room.turnTimer.live
    /\ room.turnTimer.type = "ask"
    /\ Commit(askTimerFires(Ctx))
    /\ UNCHANGED connected

AnswerTimerFires ==
    /\ room.turnTimer.live
    /\ room.turnTimer.type = "answer"
    /\ Commit(answerTimerFires(Ctx))
    /\ UNCHANGED connected

GuessTimerFires(p) ==
    /\ room.guessTimers[p] = "pending"
    /\ Commit(guessTimerFires(Ctx, p))
    /\ UNCHANGED connected

Next ==
    \/ \E s \in Sockets : RoomCreate(s)
    \/ \E s \in Sockets : RoomJoin(s)
    \/ \E s \in Sockets : RoomLeave(s)
    \/ \E s \in Sockets, w \in RawWords : RoundStart(s, w)
    \/ \E s \in Sockets : QuestionAsk(s)
    \/ \E s \in Sockets, id \in QuestionIds, a \in Answers : QuestionAnswer(s, id, a)
    \/ \E s \in Sockets, t \in GuessTexts : GuessSubmit(s, t)
    \/ \E s \in Sockets : Disconnect(s)
    \/ AskTimerFires
    \/ AnswerTimerFires
    \/ \E p \in Sockets : GuessTimerFires(p)

Spec == Init /\ [][Next]_vars

\* ------------------------------------------------------------ idle rounds
\* Rounds of several questions in which the Thinker never answers in time and
\* nobody submits a guess: every question is closed by the answer timer, and
\* the guessing phase by the guess timers.
QuestionIdsIdle == 1..MaxQuestionsIdle

QuestionAskIdle(s) ==
    /\ Acting(s)
    /\ Member(s)
    /\ AskAccepted(Ctx, s) => Len(room.questions) < MaxQuestionsIdle
    /\ Commit(questionAsk(Ctx, s))
    /\ UNCHANGED connected

NextIdle ==
    \/ \E s \in Sockets : RoomCreate(s)
    \/ \E s \in Sockets : RoomJoin(s)
    \/ \E s \in Sockets : RoomLeave(s)
    \/ \E s \in Sockets, w \in RawWords : RoundStart(s, w)
    \/ \E s \in Sockets : QuestionAskIdle(s)
    \/ \E s \in Sockets : Disconnect(s)
    \/ AskTimerFires
    \/ AnswerTimerFires
    \/ \E p \in Sockets : GuessTimerFires(p)

SpecIdle == Init /\ [][NextIdle]_vars

\* ---------------------------------------------------------- crowded rooms
\* One more connection than in Spec, so that a round has three guessers. The
\* Thinker answers "Non so" or not at all and nobody guesses or disconnects;
\* the guessing phase is left only by a new round:start or by leaving.
InitCrowd ==
    /\ room = createRoom
    /\ registered = FALSE
    /\ connected = 1..CrowdSockets
    /\ emitted = NoEvents

NextCrowd ==
    \/ \E s \in Sockets : RoomCreate(s)
    \/ \E s \in Sockets : RoomJoin(s)
    \/ \E s \in Sockets : RoomLeave(s)
    \/ \E s \in Sockets, w \in RawWords : RoundStart(s, w)
    \/ \E s \in Sockets : QuestionAskIdle(s)
    \/ \E s \in Sockets, id \in QuestionIdsIdle : QuestionAnswer(s, id, "Non so")
    \/ AskTimerFires
    \/ AnswerTimerFires

SpecCrowd == InitCrowd /\ [][NextCrowd]_vars

\* ------------------------------------------------- undisturbed guessing
\* Nobody joins or leaves while the room is in guessing and nobody
\* disconnects; the budget is spent by ask timeouts and premature guesses.
\* A pending guess timer fires after its 60 seconds: setTimeout callbacks are
\* run by the event loop once due, hence the weak fairness of each one.
JoinOutsideGuessing(s) ==
    /\ room.status # "guessing"
    /\ RoomJoin(s)

LeaveOutsideGuessing(s) ==
    /\ room.status # "guessing"
    /\ RoomLeave(s)

NextQuiet ==
    \/ \E s \in Sockets : RoomCreate(s)
    \/ \E s \in Sockets : JoinOutsideGuessing(s)
    \/ \E s \in Sockets : LeaveOutsideGuessing(s)
    \/ \E s \in Sockets, w \in RawWords : RoundStart(s, w)
    \/ \E s \in Sockets, t \in GuessTexts : GuessSubmit(s, t)
    \/ AskTimerFires
    \/ \E p \in Sockets : GuessTimerFires(p)

SpecQuiet ==
    /\ Init
    /\ [][NextQuiet]_vars
    /\ \A p \in Sockets : WF_vars(GuessTimerFires(p))

\* ================================================================ claims
\* the timers of the room that are pending
PendingGuessTimers == {s \in Sockets : room.guessTimers[s] = "pending"}
PendingTimers == Cardinality(PendingGuessTimers) + (IF room.turnTimer.live THEN 1 ELSE 0)

\* C1: in every reachable state of a registered room the current thinkerId is
\* not an element of turnOrder.
C1_ThinkerNotInTurnOrder ==
    registered => ~Includes(room.turnOrder, room.thinkerSocketId)

\* a round has just ended and the Thinker role was rotated among several players
C1_Witness ==
    /\ registered
    /\ emitted.roundEnded \in {"guessed", "exhausted"}
    /\ Len(room.turnOrder) > 0

\* C2 (as claimed): in every reachable state 0 <= asked <= maxQuestions.
C2_AskedWithinBudget ==
    registered => (0 <= room.asked /\ room.asked <= room.maxQuestions)

\* C3: after any handler or timer callback, status = playing implies
\* asked < maxQuestions: reaching the budget switches the phase in that step.
C3_PlayingHasBudgetLeft ==
    (registered /\ room.status = "playing") => room.asked < room.maxQuestions

\* the budget has just been used up and the room is in the guessing phase
C3_Witness ==
    /\ registered
    /\ room.status = "guessing"
    /\ room.asked = room.maxQuestions

\* C4 (as claimed): secretWord is a non-empty word exactly when status is
\* playing or guessing.
C4_SecretWordIffRound ==
    registered => (Truthy(room.secretWord) <=> room.status \in {"playing", "guessing"})

\* C5: guessAttempts is non-null exactly when status is guessing.
C5_GuessAttemptsIffGuessing ==
    registered => ((room.guessAttempts # NoAttempts) <=> room.status = "guessing")

\* the guessing phase is running with attempts granted
C5_Witness ==
    /\ registered
    /\ room.status = "guessing"
    /\ room.guessAttempts # NoAttempts
    /\ \E s \in Sockets : GAGet(room.guessAttempts[1], s) = AttemptsPerPlayer

\* C6 (as claimed): in waiting and playing at most one timer is pending and no
\* guess timer is pending.
C6_OneTimerOutsideGuessing ==
    (registered /\ room.status \in {"waiting", "playing"})
        => (PendingTimers <= 1 /\ PendingGuessTimers = {})

\* C7: between handlers no player of a registered room has a
\* consecutive-timeout counter of 3 or more.
C7_NoPlayerAtThreshold ==
    registered =>
        \A i \in 1..Len(room.players) : room.players[i].timeouts < ExpelThreshold

\* a callback has just expelled a player, who is no longer in players
C7_Witness ==
    /\ registered
    /\ emitted.expelled # NoId
    /\ ~PlayersHas(room.players, emitted.expelled)
    /\ ~Includes(room.turnOrder, emitted.expelled)

\* the ask timer is pending for the current asker, who has timed out twice
ThirdAskTimeoutDue ==
    /\ registered
    /\ room.status = "playing"
    /\ room.turnTimer.live
    /\ room.turnTimer.type = "ask"
    /\ At(room.turnOrder, room.turnIdx) = room.turnTimer.target
    /\ PlayersHas(room.players, room.turnTimer.target)
    /\ PlayersGet(room.players, room.turnTimer.target).timeouts = ExpelThreshold - 1

\* C8: when a guesser's third consecutive ask-timeout fires, the guesser is
\* removed from players and turnOrder, and if guessers remain the current asker
\* is the guesser who followed the expelled one (wrapping to the first), with
\* the ask timer armed for that guesser.
C8_ExpulsionPassesTurnToSuccessor ==
    ThirdAskTimeoutDue =>
        LET p == room.turnTimer.target
            succ == At(room.turnOrder, (room.turnIdx + 1) % Len(room.turnOrder))
            r == askTimerFires(Ctx).room
        IN /\ ~PlayersHas(r.players, p)
           /\ ~Includes(r.turnOrder, p)
           /\ Len(room.turnOrder) > 1 =>
                /\ At(r.turnOrder, r.turnIdx) = succ
                /\ r.turnTimer = [type |-> "ask", target |-> succ, qid |-> 0, live |-> TRUE]

\* one of three guessers has just been expelled and the ask timer runs for
\* one of the two who remain
C8_Witness ==
    /\ registered
    /\ room.status = "playing"
    /\ emitted.expelled # NoId
    /\ Len(room.turnOrder) = 2
    /\ room.turnIdx = 1
    /\ room.turnTimer.live
    /\ room.turnTimer.type = "ask"

\* C9 (as claimed): answering a question whose answer is already set is
\* rejected: the handler changes nothing and emits nothing.
C9_AnsweredIsRejected ==
    registered =>
        \A s \in connected, id \in QuestionIds, a \in Answers :
            LET qi == FindQuestion(room.questions, id) IN
            (qi # 0 /\ room.questions[qi].answer # Null)
                => questionAnswer(Ctx, s, id, a) = Ctx

ExhaustedEndNamesThinker(c) ==
    Summary(c.out).roundEnded = "exhausted" =>
        /\ Summary(c.out).winnerId = room.thinkerSocketId
        /\ c.reg
        /\ c.room.status = "waiting"

C11_GuessingHasEligiblePlayer ==
    (registered /\ room.status = "guessing") =>
        /\ room.guessAttempts # NoAttempts
        /\ \E i \in 1..Len(room.players) :
              /\ room.players[i].id # room.thinkerSocketId
              /\ GAGet(room.guessAttempts[1], room.players[i].id) >= 1

\* a round is running, the Thinker is connected and the answer timer is
\* pending for a question that has no answer yet
ThinkerAwaited ==
    /\ registered
    /\ room.status = "playing"
    /\ room.thinkerSocketId \in connected
    /\ PlayersHas(room.players, room.thinkerSocketId)
    /\ room.turnTimer.live
    /\ room.turnTimer.type = "answer"
    /\ FindQuestion(room.questions, room.turnTimer.qid) # 0
    /\ room.questions[FindQuestion(room.questions, room.turnTimer.qid)].answer = Null

\* C12 (as claimed): if the Thinker disconnects mid-round with an unanswered
\* question pending and a new connection then joins (under the Thinker's name,
\* within the grace window), that connection becomes Thinker of the same round,
\* secret word and questions preserved, and the answer timer is re-armed for
\* the same question id.
C12_ThinkerReclaimsRound ==
    ThinkerAwaited =>
        \A s \in connected :
            ~Member(s) =>
                LET c == roomJoin(disconnect(Ctx, room.thinkerSocketId), s) IN
                /\ c.reg
                /\ c.room.thinkerSocketId = s
                /\ c.room.status = "playing"
                /\ c.room.secretWord = room.secretWord
                /\ c.room.questions = room.questions
                /\ c.room.turnTimer = [type |-> "answer", target |-> s,
                                       qid |-> room.turnTimer.qid, live |-> TRUE]

\* the Thinker is awaited on the question of the current asker
AnswerDue ==
    /\ ThinkerAwaited
    /\ room.turnTimer.target = room.thinkerSocketId
    /\ Len(room.turnOrder) > 0
    /\ room.turnIdx < Len(room.turnOrder)

\* the asked counter after the answer
AskedAfter(answer) == IF answer = "Non so" THEN room.asked ELSE room.asked + 1

\* the guesser after the current asker in turnOrder
NextAsker == At(room.turnOrder, (room.turnIdx + 1) % Len(room.turnOrder))

\* C13 (as claimed): when the Thinker answers the pending question of the
\* current asker in playing, asked grows by 1 unless the answer is "Non so",
\* and in both cases the turn passes to the next guesser with the ask timer
\* armed for that guesser.
C13_AnswerPassesTurn ==
    AnswerDue =>
        \A a \in Answers :
            LET r == questionAnswer(Ctx, room.thinkerSocketId, room.turnTimer.qid, a).room IN
            /\ r.asked = AskedAfter(a)
            /\ r.turnIdx = (room.turnIdx + 1) % Len(room.turnOrder)
            /\ r.turnTimer = [type |-> "ask", target |-> NextAsker, qid |-> 0, live |-> TRUE]

\* C13 (amended): when the Thinker answers the pending question of the current
\* asker in playing, asked grows by 1 unless the answer is "Non so" and the
\* turn index moves to the next guesser; if asked is then still below the
\* budget the ask timer is armed for that guesser, otherwise the guessing phase
\* starts in the same step and no ask timer is armed.
C13_AnswerPassesTurnOrStartsGuessing ==
    AnswerDue =>
        \A a \in Answers :
            LET r == questionAnswer(Ctx, room.thinkerSocketId, room.turnTimer.qid, a).room IN
            /\ r.asked = AskedAfter(a)
            /\ r.turnIdx = (room.turnIdx + 1) % Len(room.turnOrder)
            /\ IF AskedAfter(a) < room.maxQuestions
               THEN /\ r.status = "playing"
                    /\ r.turnTimer = [type |-> "ask", target |-> NextAsker,
                                      qid |-> 0, live |-> TRUE]
               ELSE /\ r.status = "guessing"
                    /\ ~r.turnTimer.live

\* the Thinker has just answered a question of a round with two guessers and
\* the turn has passed to the second of them
C13_Witness ==
    /\ registered
    /\ room.status = "playing"
    /\ Len(room.turnOrder) = 2
    /\ room.turnIdx = 1
    /\ room.asked = 1
    /\ Len(room.questions) = 1
    /\ room.questions[1].answer = "Si"
    /\ room.turnTimer = [type |-> "ask", target |-> At(room.turnOrder, 1),
                         qid |-> 0, live |-> TRUE]

\* C14 (as claimed): a round:start that is rejected, because the caller is not
\* the Thinker or the trimmed secret word is empty, changes nothing in the
\* room, whatever its status.
C14_RejectedStartChangesNothing ==
    registered =>
        \A s \in connected, w \in RawWords :
            (s # room.thinkerSocketId \/ ~Truthy(Trim(w)))
                => roundStart(Ctx, s, w).room = room

\* C15 (as claimed): a guess submitted during guessing by a player with 0
\* attempts left is rejected with the room unchanged, the player's attempts,
\* timers and timeout counter included.
C15_SpentGuesserChangesNothing ==
    (registered /\ room.status = "guessing" /\ room.guessAttempts # NoAttempts) =>
        \A s \in connected, t \in GuessTexts :
            (Member(s) /\ s # room.thinkerSocketId
                       /\ GAGet(room.guessAttempts[1], s) = 0)
                => guessSubmit(Ctx, s, t).room = room

\* the answer timer is pending for the Thinker, who has timed out twice
ThirdAnswerTimeoutDue ==
    /\ registered
    /\ room.status = "playing"
    /\ room.turnTimer.live
    /\ room.turnTimer.type = "answer"
    /\ room.turnTimer.target = room.thinkerSocketId
    /\ PlayersHas(room.players, room.thinkerSocketId)
    /\ PlayersGet(room.players, room.thinkerSocketId).timeouts = ExpelThreshold - 1

\* C16: when the Thinker's consecutive answer-timeouts reach 3, the round ends
\* in that same callback with no winner, every timer of the room is cancelled
\* and the room is removed from the registry, with no Thinker rotation and no
\* return to waiting.
C16_ThinkerExpulsionDestroysRoom ==
    ThirdAnswerTimeoutDue =>
        LET c == answerTimerFires(Ctx) IN
        /\ Summary(c.out).roundEnded = "thinkerExpelled"
        /\ Summary(c.out).winnerId = NoId
        /\ ~c.room.turnTimer.live
        /\ \A s \in Sockets : c.room.guessTimers[s] # "pending"
        /\ ~c.reg
        /\ c.room.thinkerSocketId = room.thinkerSocketId
        /\ c.room.status = "playing"

\* the Thinker has just been expelled and the room is gone
C16_Witness ==
    /\ ~registered
    /\ emitted.roundEnded = "thinkerExpelled"
    /\ emitted.winnerId = NoId

\* C17 (as claimed): when the Thinker disconnects during a round the room is
\* not destroyed at once: the ask/answer timer is cancelled without advancing
\* the turn, the Thinker's record is removed from players, and status,
\* secretWord and questions are kept while the Thinker is awaited.
C17_ThinkerDisconnectKeepsRoom ==
    (/\ registered
     /\ room.status \in {"playing", "guessing"}
     /\ room.thinkerSocketId \in connected
     /\ PlayersHas(room.players, room.thinkerSocketId)) =>
        LET c == disconnect(Ctx, room.thinkerSocketId) IN
        /\ c.reg
        /\ Summary(c.out).roundEnded = ""
        /\ ~c.room.turnTimer.live
        /\ c.room.turnIdx = room.turnIdx
        /\ ~PlayersHas(c.room.players, room.thinkerSocketId)
        /\ c.room.status = room.status
        /\ c.room.secretWord = room.secretWord
        /\ c.room.questions = room.questions

\* room r, left by the removal of the guesser at index i of turnOrder, keeps
\* the turn: the same asker if i preceded turnIdx; the guesser who followed
\* the removed one, with a fresh ask timer, if i was turnIdx
TurnKept(r, i) ==
    /\ i < room.turnIdx =>
          At(r.turnOrder, r.turnIdx) = At(room.turnOrder, room.turnIdx)
    /\ (i = room.turnIdx /\ Len(room.turnOrder) > 1) =>
          /\ At(r.turnOrder, r.turnIdx) = At(room.turnOrder, (i + 1) % Len(room.turnOrder))
          /\ r.turnTimer = [type |-> "ask",
                            target |-> At(room.turnOrder, (i + 1) % Len(room.turnOrder)),
                            qid |-> 0, live |-> TRUE]

\* C18 (as claimed): for every way a guesser is removed during playing (leave,
\* disconnect, expulsion): if the removed guesser's index preceded turnIdx the
\* current asker is the same player as before; if the removed guesser was the
\* current asker the turn passes to the guesser now at that index (wrapping to
\* 0) and a fresh ask timer is armed for them.
C18_RemovalKeepsTurn ==
    (registered /\ room.status = "playing" /\ room.turnIdx < Len(room.turnOrder)) =>
        \A s \in connected :
            (Member(s) /\ s # room.thinkerSocketId /\ Includes(room.turnOrder, s)) =>
                LET i == IndexOf(room.turnOrder, s, 1) IN
                /\ TurnKept(roomLeave(Ctx, s).room, i)
                /\ TurnKept(disconnect(Ctx, s).room, i)
                /\ (ThirdAskTimeoutDue /\ room.turnTimer.target = s)
                      => TurnKept(askTimerFires(Ctx).room, i)

\* the changes of status the state machine allows
StatusChanges ==
    { <<"waiting", "playing">>, <<"playing", "guessing">>,
      <<"playing", "waiting">>, <<"guessing", "waiting">> }

\* C19 (as claimed): every change of a room's status is one of
\* waiting -> playing (round:start), playing -> guessing (budget exhausted),
\* playing -> waiting or guessing -> waiting (round end); no action moves a
\* room from guessing back to playing.
C19_StatusOrder ==
    [][ (registered /\ registered' /\ room'.status # room.status)
            => <<room.status, room'.status>> \in StatusChanges ]_vars

\* C20 (as claimed): a guess submitted by the room's current Thinker is ignored
\* in playing and in guessing: it appends no guess, consumes no budget,
\* changes no turn or timer and never ends the round.
C20_ThinkerGuessIgnored ==
    (/\ registered
     /\ room.status \in {"playing", "guessing"}
     /\ room.thinkerSocketId \in connected
     /\ PlayersHas(room.players, room.thinkerSocketId)) =>
        \A t \in GuessTexts :
            LET c == guessSubmit(Ctx, room.thinkerSocketId, t) IN
            /\ c.room.guesses = room.guesses
            /\ c.room.asked = room.asked
            /\ c.room.turnIdx = room.turnIdx
            /\ c.room.turnTimer = room.turnTimer
            /\ c.room.guessTimers = room.guessTimers
            /\ c.room.status = room.status
            /\ Summary(c.out).roundEnded = ""

\* the consecutive-timeout counter of player p in room r
TimeoutsOf(r, p) == PlayersGet(r.players, p).timeouts

\* the ask timer is pending for the current asker, who is short of expulsion
AskTimeoutDue ==
    /\ registered
    /\ room.status = "playing"
    /\ room.turnTimer.live
    /\ room.turnTimer.type = "ask"
    /\ At(room.turnOrder, room.turnIdx) = room.turnTimer.target
    /\ PlayersHas(room.players, room.turnTimer.target)
    /\ TimeoutsOf(room, room.turnTimer.target) < ExpelThreshold - 1

\* the answer timer is pending for the Thinker, who is short of expulsion
AnswerTimeoutDue ==
    /\ registered
    /\ room.status = "playing"
    /\ room.turnTimer.live
    /\ room.turnTimer.type = "answer"
    /\ PlayersHas(room.players, room.turnTimer.target)
    /\ TimeoutsOf(room, room.turnTimer.target) < ExpelThreshold - 1

\* the guess timer of player p is pending and p has an attempt to lose
GuessTimeoutDue(p) ==
    /\ registered
    /\ room.status = "guessing"
    /\ room.guessAttempts # NoAttempts
    /\ room.guessTimers[p] = "pending"
    /\ PlayersHas(room.players, p)
    /\ GAGet(room.guessAttempts[1], p) > 0

\* C21 (as claimed): each kind of timeout increments the timed-out player's
\* consecutive-timeout counter by exactly 1: an ask-timeout for the asker, an
\* answer-timeout for the Thinker, a guess-timeout for the guesser whose
\* guess timer fired.
C21_TimeoutCountsOne ==
    /\ AskTimeoutDue =>
          TimeoutsOf(askTimerFires(Ctx).room, room.turnTimer.target)
              = TimeoutsOf(room, room.turnTimer.target) + 1
    /\ AnswerTimeoutDue =>
          TimeoutsOf(answerTimerFires(Ctx).room, room.turnTimer.target)
              = TimeoutsOf(room, room.turnTimer.target) + 1
    /\ \A p \in Sockets :
          GuessTimeoutDue(p) =>
              TimeoutsOf(guessTimerFires(Ctx, p).room, p) = TimeoutsOf(room, p) + 1

\* guess:submit from s gets past every check of the handler
GuessAccepted(c, s) ==
    /\ c.reg
    /\ c.room.status \in {"playing", "guessing"}
    /\ (c.room.status = "guessing" /\ c.room.guessAttempts # NoAttempts) =>
          /\ s # c.room.thinkerSocketId
          /\ GAGet(c.room.guessAttempts[1], s) # 0

\* player s, if still in room r, has a consecutive-timeout counter of 0
CounterCleared(r, s) == PlayersHas(r.players, s) => TimeoutsOf(r, s) = 0

\* C22: every accepted ask, answer or guess by a player sets that player's
\* consecutive-timeout counter to 0.
C22_AcceptedActionClearsCounter ==
    \A s \in connected :
        Member(s) =>
            /\ AskAccepted(Ctx, s) => CounterCleared(questionAsk(Ctx, s).room, s)
            /\ \A id \in QuestionIdsIdle, a \in Answers :
                  AnswerAccepted(Ctx, s, id)
                      => CounterCleared(questionAnswer(Ctx, s, id, a).room, s)
            /\ \A t \in GuessTexts :
                  GuessAccepted(Ctx, s)
                      => CounterCleared(guessSubmit(Ctx, s, t).room, s)

\* a player who has timed out since their last action has just had a question
\* accepted: the answer timer runs and their counter is 0 again
C22_Witness ==
    /\ registered
    /\ room.status = "playing"
    /\ room.turnTimer.live
    /\ room.turnTimer.type = "answer"
    /\ room.asked > 0
    /\ room.guesses = <<>>
    /\ Len(room.turnOrder) = 1
    /\ PlayersHas(room.players, At(room.turnOrder, 0))
    /\ TimeoutsOf(room, At(room.turnOrder, 0)) = 0

\* context c is what a callback that did nothing leaves of room r: nothing
\* emitted, and the room as it was but for the handle that has fired
Untouched(c, r) ==
    /\ c.out = <<>>
    /\ c.reg = registered
    /\ [c.room EXCEPT !.turnTimer = r.turnTimer, !.guessTimers = r.guessTimers] = r
    /\ c.room.turnTimer.live => r.turnTimer.live
    /\ \A s \in Sockets : c.room.guessTimers[s] = "pending" => r.guessTimers[s] = "pending"

\* the pending ask timer no longer guards the current asker of a round
StaleAsk ==
    /\ room.turnTimer.live
    /\ room.turnTimer.type = "ask"
    /\ \/ room.status # "playing"
       \/ At(room.turnOrder, room.turnIdx) # room.turnTimer.target

\* the pending answer timer guards a question that is answered or gone, or
\* no round
StaleAnswer ==
    /\ room.turnTimer.live
    /\ room.turnTimer.type = "answer"
    /\ \/ room.status # "playing"
       \/ FindQuestion(room.questions, room.turnTimer.qid) = 0
       \/ room.questions[FindQuestion(room.questions, room.turnTimer.qid)].answer # Null

\* the pending guess timer of p guards no attempt of a guessing phase
StaleGuess(p) ==
    /\ room.guessTimers[p] = "pending"
    /\ \/ room.status # "guessing"
       \/ room.guessAttempts = NoAttempts
       \/ GAGet(room.guessAttempts[1], p) <= 0

\* C23: a timeout callback that runs when the condition it guards no longer
\* holds changes no room state and broadcasts nothing.
C23_StaleCallbackIsNoOp ==
    /\ StaleAsk => Untouched(askTimerFires(Ctx), room)
    /\ StaleAnswer => Untouched(answerTimerFires(Ctx), room)
    /\ \A p \in Sockets : StaleGuess(p) => Untouched(guessTimerFires(Ctx, p), room)

\* a guess timer has outlived its guessing phase
C23_Witness ==
    /\ registered
    /\ room.status = "playing"
    /\ \E p \in Sockets : StaleGuess(p)

\* player s holds an attempt of the running guessing phase
HoldsAttempt(s) ==
    /\ registered
    /\ room.status = "guessing"
    /\ room.guessAttempts # NoAttempts
    /\ PlayersHas(room.players, s)
    /\ s # room.thinkerSocketId
    /\ GAGet(room.guessAttempts[1], s) > 0

\* the handler that produced c armed a guess timer for player s
GuessTimerArmed(c, s) ==
    \E i \in 1..Len(c.out) : c.out[i].ev = "timer:start:guess" /\ c.out[i].to = s

\* no timer of room r is pending
NoTimerPending(r) ==
    /\ ~r.turnTimer.live
    /\ \A p \in Sockets : r.guessTimers[p] # "pending"

\* C24: in guessing, an accepted guess by a player with attempts left takes
\* one attempt from that player and cancels their guess timer; a correct guess
\* ends the round in the same handler with that player as winner and no timer
\* left pending; an incorrect guess arms a fresh guess timer for that player
\* exactly when attempts remain.
C24_GuessTakesOneAttempt ==
    \A s \in connected, t \in GuessTexts :
        HoldsAttempt(s) =>
            LET c == guessSubmit(Ctx, s, t)
                left == room.guessAttempts[1][s] - 1
                ended == Summary(c.out).roundEnded
                othersOut == \A k \in DOMAIN room.guessAttempts[1] :
                                k # s => room.guessAttempts[1][k] <= 0
            IN /\ ended = "" =>
                    /\ c.room.guessAttempts # NoAttempts
                    /\ GAGet(c.room.guessAttempts[1], s) = left
                    /\ \A k \in DOMAIN room.guessAttempts[1] :
                          k # s => GAGet(c.room.guessAttempts[1], k)
                                      = room.guessAttempts[1][k]
               /\ left = 0 => c.room.guessTimers[s] # "pending"
               /\ IsCorrect(room.secretWord, t) =>
                    /\ ended = "guessed"
                    /\ Summary(c.out).winnerId = s
                    /\ c.room.status = "waiting"
                    /\ NoTimerPending(c.room)
                    /\ ~GuessTimerArmed(c, s)
               /\ ~IsCorrect(room.secretWord, t) =>
                    /\ GuessTimerArmed(c, s) <=> left > 0
                    /\ ended = "" => (c.room.guessTimers[s] = "pending" <=> left > 0)
                    /\ ended # "" <=> (left = 0 /\ othersOut)
                    /\ ended # "" => ended = "exhausted"

\* a guesser has used one attempt and is timed for the next while another
\* guesser is out of attempts and untimed
C24_Witness ==
    /\ registered
    /\ room.status = "guessing"
    /\ room.guessAttempts # NoAttempts
    /\ Truthy(room.secretWord)
    /\ \E p, q \in Sockets :
          /\ p # q
          /\ HoldsAttempt(p)
          /\ room.guessAttempts[1][p] = 1
          /\ room.guessTimers[p] = "pending"
          /\ PlayersHas(room.players, q)
          /\ GAGet(room.guessAttempts[1], q) = 0
          /\ room.guessTimers[q] = "absent"

\* the handler that produced c ended the round through endRoundAndRotate
RoundRotated(c) == Summary(c.out).roundEnded \in {"guessed", "exhausted"}

\* the players of r other than its Thinker
OtherPlayers(r) == {r.players[i].id : i \in 1..Len(r.players)} \ {r.thinkerSocketId}

\* room r after a rotation: its Thinker is a player, the roles follow the
\* Thinker, turnOrder is the other players in join order and turnIdx is 0
RolesFollowThinker(r) ==
    /\ PlayersHas(r.players, r.thinkerSocketId)
    /\ \A i \in 1..Len(r.players) :
          r.players[i].role =
              IF r.players[i].id = r.thinkerSocketId THEN "thinker" ELSE "guesser"
    /\ r.turnOrder = Filter(PlayerKeys(r.players), r.thinkerSocketId)
    /\ r.turnIdx = 0

\* the Thinker of r2 is the one the rotation rule picks from r, reading
\* turnOrder at index i
PickedFrom(r, i, r2) ==
    IF Len(r.turnOrder) > 0 THEN r2.thinkerSocketId = At(r.turnOrder, i)
    ELSE IF OtherPlayers(r) # {} THEN r2.thinkerSocketId \in OtherPlayers(r)
    ELSE r2.thinkerSocketId = r.thinkerSocketId

\* the handlers that can end a round with a rotation, applied to the current state
RotatingResults ==
    {guessSubmit(Ctx, s, t) : s \in {x \in connected : Member(x)}, t \in GuessTexts}
        \cup {guessTimerFires(Ctx, p) : p \in {x \in Sockets : room.guessTimers[x] = "pending"}}

StartAccepted(s, w) ==
    /\ registered
    /\ s = room.thinkerSocketId
    /\ Truthy(Trim(w))

\* C26: after an accepted round:start, status is playing, asked is 0,
\* questions and guesses are empty, guessAttempts is absent, turnOrder is the
\* players minus the Thinker in join order, turnIdx is 0, every player's
\* timeout counter is 0, and the ask timer is armed for turnOrder[0] exactly
\* when turnOrder is non-empty.
C26_StartResetsRound ==
    \A s \in connected, w \in RawWords :
        (Member(s) /\ StartAccepted(s, w)) =>
            LET r == roundStart(Ctx, s, w).room IN
            /\ r.status = "playing"
            /\ r.asked = 0
            /\ r.questions = <<>>
            /\ r.guesses = <<>>
            /\ r.guessAttempts = NoAttempts
            /\ r.turnOrder = Filter(PlayerKeys(room.players), room.thinkerSocketId)
            /\ r.turnIdx = 0
            /\ PlayerKeys(r.players) = PlayerKeys(room.players)
            /\ \A i \in 1..Len(r.players) : r.players[i].timeouts = 0
            /\ r.turnTimer.live <=> Len(r.turnOrder) > 0
            /\ r.turnTimer.live =>
                  /\ r.turnTimer.type = "ask"
                  /\ r.turnTimer.target = r.turnOrder[1]

\* a round with two guessers has just been started during a guessing phase:
\* the first guesser is timed to ask while a guess timer is still pending
C26_Witness ==
    /\ registered
    /\ room.status = "playing"
    /\ room.asked = 0
    /\ room.questions = <<>>
    /\ room.guesses = <<>>
    /\ Len(room.turnOrder) = 2
    /\ room.turnIdx = 0
    /\ room.turnTimer.live
    /\ room.turnTimer.type = "ask"
    /\ room.turnTimer.target = room.turnOrder[1]
    /\ \A i \in 1..Len(room.players) : room.players[i].timeouts = 0
    /\ \E p \in Sockets : room.guessTimers[p] = "pending"

\* the questions of room r that have no answer yet
Unanswered(r) == {i \in 1..Len(r.questions) : r.questions[i].answer = Null}

\* C27: during playing at most one question is unanswered at any time.
C27_OneUnansweredQuestion ==
    (registered /\ room.status = "playing") => Cardinality(Unanswered(room)) <= 1

\* C28: whenever status is playing and turnOrder is non-empty, the ask/answer
\* timer of the room is armed.
C28_PlayingRoundIsTimed ==
    (registered /\ room.status = "playing" /\ Len(room.turnOrder) > 0)
        => room.turnTimer.live

\* C29: whenever an ask timer is pending, its target is the current asker
\* turnOrder[turnIdx] and status is playing; whenever an answer timer is
\* pending, its target is the current Thinker and the question it is tagged
\* with is still unanswered.
C29_TurnTimerGuardsCurrentTurn ==
    room.turnTimer.live =>
        /\ room.turnTimer.type = "ask" =>
              /\ room.status = "playing"
              /\ Len(room.turnOrder) > 0
              /\ room.turnTimer.target = At(room.turnOrder, room.turnIdx)
        /\ room.turnTimer.type = "answer" =>
              /\ room.turnTimer.target = room.thinkerSocketId
              /\ FindQuestion(room.questions, room.turnTimer.qid) # 0
              /\ room.questions[FindQuestion(room.questions, room.turnTimer.qid)].answer = Null

\* the second guesser in turn order has asked and the Thinker is timed to
\* answer that question
C29_Witness ==
    /\ registered
    /\ room.status = "playing"
    /\ Len(room.turnOrder) = 2
    /\ room.turnIdx = 1
    /\ room.turnTimer.live
    /\ room.turnTimer.type = "answer"
    /\ room.turnTimer.target = room.thinkerSocketId
    /\ FindQuestion(room.questions, room.turnTimer.qid) # 0
    /\ room.questions[FindQuestion(room.questions, room.turnTimer.qid)].answer = Null

\* C30: whenever status is guessing, every non-Thinker player in players with
\* attempts left has a guess timer pending, and every attempts value is 0, 1
\* or 2.
C30_EligibleGuessersAreTimed ==
    (registered /\ room.status = "guessing") =>
        /\ room.guessAttempts # NoAttempts
        /\ \A k \in DOMAIN room.guessAttempts[1] :
              room.guessAttempts[1][k] \in 0..AttemptsPerPlayer
        /\ \A s \in Sockets :
              ( /\ PlayersHas(room.players, s)
                /\ s # room.thinkerSocketId
                /\ GAGet(room.guessAttempts[1], s) > 0 )
                  => room.guessTimers[s] = "pending"

\* two guessers are timed in a guessing phase, one with both attempts and one
\* with a single attempt left
C30_Witness ==
    /\ registered
    /\ room.status = "guessing"
    /\ room.guessAttempts # NoAttempts
    /\ \E p, q \in Sockets :
          /\ p # room.thinkerSocketId
          /\ q # room.thinkerSocketId
          /\ PlayersHas(room.players, p)
          /\ PlayersHas(room.players, q)
          /\ GAGet(room.guessAttempts[1], p) = 2
          /\ GAGet(room.guessAttempts[1], q) = 1
          /\ room.guessTimers[p] = "pending"
          /\ room.guessTimers[q] = "pending"


\* some player of the room other than the Thinker has an attempt left
EligibleGuesser ==
    /\ registered
    /\ room.status = "guessing"
    /\ room.guessAttempts # NoAttempts
    /\ \E i \in 1..Len(room.players) :
          /\ room.players[i].id # room.thinkerSocketId
          /\ GAGet(room.guessAttempts[1], room.players[i].id) > 0

\* C31: once a room is in guessing with an eligible guesser, if pending guess
\* timers eventually fire and nobody joins, leaves or disconnects, the room
\* eventually returns to waiting.
C31_GuessingReturnsToWaiting == EligibleGuesser ~> (room.status = "waiting")

\* room r has a player, its Thinker is one of its players and so is every
\* element of its turnOrder
WellPopulated(r) ==
    /\ Len(r.players) >= 1
    /\ PlayersHas(r.players, r.thinkerSocketId)
    /\ \A i \in 1..Len(r.turnOrder) : PlayersHas(r.players, r.turnOrder[i])

\* the handler that produced c has removed the room from the registry with
\* none of its timers pending
RemovedWithTimersCancelled(c) ==
    /\ ~c.reg
    /\ NoTimerPending(c.room)

\* room:leave and disconnect of player s, applied to the current state
Departures(s) == {roomLeave(Ctx, s), disconnect(Ctx, s)}

\* C32: every room in the registry has at least one player, its Thinker is a
\* member of its players and every element of turnOrder is a member of
\* players; a room whose Thinker leaves or whose players become empty is
\* removed from the registry with all its timers cancelled.
C32_RegisteredRoomIsPopulated ==
    registered =>
        /\ WellPopulated(room)
        /\ \A s \in connected :
              Member(s) =>
                 \A c \in Departures(s) :
                    (s = room.thinkerSocketId \/ Len(c.room.players) = 0)
                        => RemovedWithTimersCancelled(c)

\* the Thinker has just left: the room is gone from the registry with no
\* timer pending
C32_Witness ==
    /\ ~registered
    /\ emitted.roundEnded = "thinkerLeft"
    /\ NoTimerPending(room)

====
